---- MODULE Spec2Model ----
(***************************************************************************)
(* The simple debugger (sdb) of NEMU: nemu/src/monitor/sdb/sdb.c.          *)
(*                                                                         *)
(* A C string is a sequence of one-character strings; a char pointer into  *)
(* the line buffer is a 1-based index into that sequence, 0 is the null    *)
(* pointer and Len(buf)+1 is the position of the terminating NUL.          *)
(* A printf call is the tuple <<format, arguments...>> appended to `out`.  *)
(* A call to a function of another translation unit (cpu_exec,             *)
(* isa_reg_display, guest_to_host, readline, init_regex, init_wp_pool) is  *)
(* a tuple appended to `calls` (or `initlog`).                             *)
(***************************************************************************)
EXTENDS Integers, Sequences, FiniteSets, TLC

\* ------------------------------------------------------------------ bounds
\* number of lines the line source delivers before it signals end-of-input
MaxLines == 2
\* the halt return code ranges over 0 .. MaxHaltRet
MaxHaltRet == 2

\* ------------------------------------------------------- C strings, chars
NULL == 0
NUL == "NUL"
\* a pointer into a buffer that has been freed
DANGLING == -1

\* the character p points at (the terminating NUL at and past the end)
CharAt(buf, p) == IF p >= 1 /\ p <= Len(buf) THEN buf[p] ELSE NUL

\* first position >= p holding NUL
RECURSIVE StrEnd(_, _)
StrEnd(buf, p) == IF CharAt(buf, p) = NUL THEN p ELSE StrEnd(buf, p + 1)

\* the C string p points at: the characters up to the first NUL
CStr(buf, p) == SubSeq(buf, p, StrEnd(buf, p) - 1)

strlen(buf, p) == StrEnd(buf, p) - p

\* strcmp(a, b) == 0 iff the two strings have the same characters up to
\* their terminators; only the comparison with 0 is used by the program
strcmp_prefix(a, b) == IF Len(a) <= Len(b) /\ SubSeq(b, 1, Len(a)) = a THEN 0 ELSE 1
strcmp(a, b) == IF a = b THEN 0 ELSE 1

\* ------------------------------------------------------------ strtok
\* the delimiter set every strtok call of sdb.c passes: " "
DELIM == {" "}

\* strspn: first position >= p whose character is not a delimiter
RECURSIVE SkipDelim(_, _)
SkipDelim(buf, p) ==
  IF CharAt(buf, p) \in DELIM THEN SkipDelim(buf, p + 1) ELSE p

\* strpbrk: first position >= p holding a delimiter, or the terminator
RECURSIVE FindDelim(_, _)
FindDelim(buf, p) ==
  IF CharAt(buf, p) \in DELIM \/ CharAt(buf, p) = NUL THEN p
  ELSE FindDelim(buf, p + 1)

\* strtok continuing at position s of buf (s is str for strtok(str, " "),
\* the saved pointer for strtok(NULL, " ")): the token returned (NULL when
\* there is none), the buffer with the token's delimiter overwritten by NUL,
\* and the new saved pointer
strtok(buf, s) ==
  LET b == SkipDelim(buf, s)
      e == FindDelim(buf, b)
  IN  IF CharAt(buf, b) = NUL
        THEN [tok |-> NULL, buf |-> buf, save |-> b]
      ELSE IF CharAt(buf, e) = NUL
        THEN [tok |-> b, buf |-> buf, save |-> e]
      ELSE [tok |-> b, buf |-> [buf EXCEPT ![e] = NUL], save |-> e + 1]

\* -------------------------------------------------------------- atoi
Digits == <<"0", "1", "2", "3", "4", "5", "6", "7", "8", "9">>
IsDigit(c) == \E k \in 1..10 : Digits[k] = c
DigitVal(c) == (CHOOSE k \in 1..10 : Digits[k] = c) - 1
IsSpace(c) == c \in {" ", "\t"}

\* half of the 32-bit int: the value is kept as two 16-bit limbs so that the
\* 32-bit arithmetic of the conversion can be computed exactly
LIMB == 65536
HALF == 32768

\* accumulate the decimal digits from position p: [hi, lo] is the value
\* modulo 2^32, big tells whether the value reached 2^32
RECURSIVE AccDigits(_, _, _)
AccDigits(s, p, acc) ==
  IF p > Len(s) \/ ~IsDigit(s[p]) THEN acc
  ELSE LET lo1 == acc.lo * 10 + DigitVal(s[p])
           hi1 == acc.hi * 10 + (lo1 \div LIMB)
       IN  AccDigits(s, p + 1,
             [hi |-> hi1 % LIMB, lo |-> lo1 % LIMB,
              big |-> acc.big \/ hi1 >= LIMB])

RECURSIVE SkipSpace(_, _)
SkipSpace(s, p) ==
  IF p <= Len(s) /\ IsSpace(s[p]) THEN SkipSpace(s, p + 1) ELSE p

\* the signed 32-bit int with the bit pattern hi:lo
ToInt(hi, lo) == IF hi >= HALF THEN (hi - LIMB) * LIMB + lo ELSE hi * LIMB + lo

INT_MAX == 2147483647

\* atoi(s): the set of values the call can return.  Leading white space is
\* skipped, then an optional sign, then the longest run of digits.  When the
\* number is not representable as an int the behaviour is undefined: a libc
\* that converts through a 64-bit long returns the low 32 bits, one that
\* converts through a 32-bit long returns the saturated value.
atoi(s) ==
  LET p0  == SkipSpace(s, 1)
      neg == p0 <= Len(s) /\ s[p0] = "-"
      p1  == IF p0 <= Len(s) /\ s[p0] \in {"-", "+"} THEN p0 + 1 ELSE p0
      a   == AccDigits(s, p1, [hi |-> 0, lo |-> 0, big |-> FALSE])
      nlo == (LIMB - a.lo) % LIMB
      nhi == (2 * LIMB - a.hi - (IF a.lo = 0 THEN 0 ELSE 1)) % LIMB
      ovf == IF neg THEN a.big \/ a.hi > HALF \/ (a.hi = HALF /\ a.lo > 0)
                    ELSE a.big \/ a.hi >= HALF
      wrapped == IF neg THEN ToInt(nhi, nlo) ELSE ToInt(a.hi, a.lo)
  IN  IF ovf THEN {wrapped, IF neg THEN -INT_MAX - 1 ELSE INT_MAX}
      ELSE {wrapped}

\* ------------------------------------------------------- command table
cmd_table == <<
  [name |-> <<"h", "e", "l", "p">>,
   description |-> "Display information about all supported commands",
   handler |-> "cmd_help"],
  [name |-> <<"c">>,
   description |-> "Continue the execution of the program",
   handler |-> "cmd_c"],
  [name |-> <<"q">>, description |-> "Exit NEMU", handler |-> "cmd_q"],
  [name |-> <<"s", "i">>, description |-> "Execute N step(s)",
   handler |-> "cmd_si"],
  [name |-> <<"i", "n", "f", "o">>, description |-> "Print program state",
   handler |-> "cmd_info"],
  [name |-> <<"x">>, description |-> "Scan memory", handler |-> "cmd_x"] >>

NR_CMD == Len(cmd_table)

\* the lookup loop of sdb_mainloop, from row i on: the first row whose name
\* compares equal to the command word, NR_CMD + 1 when the loop runs out
\* (the table is 1-based here, so this is the C loop's i == NR_CMD)
RECURSIVE LookupFrom(_, _)
LookupFrom(word, i) ==
  IF i > NR_CMD THEN i
  ELSE IF strcmp(word, cmd_table[i].name) = 0 THEN i
  ELSE LookupFrom(word, i + 1)

\* the same loop in cmd_help
RECURSIVE HelpLookupFrom(_, _)
HelpLookupFrom(word, i) ==
  IF i > NR_CMD THEN i
  ELSE IF strcmp(word, cmd_table[i].name) = 0 THEN i
  ELSE HelpLookupFrom(word, i + 1)

\* ------------------------------------------------------ emulator state
NemuStates == {"NEMU_RUNNING", "NEMU_STOP", "NEMU_END", "NEMU_ABORT", "NEMU_QUIT"}
HaltRets == 0 .. MaxHaltRet
\* two program counters stand for all of them
PCs == {0, 4}
\* the values the byte of guest memory at X_ADDR can hold: guest memory is
\* not owned by the shell, a read of it returns whatever the guest left
Bytes == {0, 255}

\* 0x80000000, as 16-bit limbs
X_ADDR == [hi |-> HALF, lo |-> 0]

\* ------------------------------------------------------------- input
SP == <<" ">>
TAB == <<"\t">>

\* the words used to build the lines
W_help == <<"h", "e", "l", "p">>
W_c == <<"c">>
W_q == <<"q">>
W_si == <<"s", "i">>
W_info == <<"i", "n", "f", "o">>
W_x == <<"x">>

\* lines without a command word
BlankLines == { <<>>, SP, SP \o SP \o SP, TAB, SP \o TAB, TAB \o TAB \o SP }

\* lines whose command word is a registered name
CommandLines == {
  W_help, W_help \o SP \o W_si, W_help \o SP \o <<"h", "e">>,
  W_help \o SP \o SP, W_help \o SP \o W_x \o SP \o <<"1">>,
  W_c, W_c \o SP \o <<"3">>,
  W_q, W_q \o SP \o <<"1">>, SP \o W_q,
  W_si, W_si \o SP, W_si \o SP \o SP \o SP,
  W_si \o SP \o <<"3">>, W_si \o SP \o <<"0">>, W_si \o SP \o <<"-", "5">>,
  W_si \o SP \o <<"a", "b", "c">>, W_si \o SP \o <<"3", "a", "b", "c">>,
  W_si \o SP \o <<"5">> \o SP \o <<"7">>,
  W_si \o SP \o <<"4", "2", "9", "4", "9", "6", "7", "2", "9", "7">>,
  W_info, W_info \o SP \o SP, W_info \o SP \o <<"r">>,
  W_info \o SP \o <<"w">>, W_info \o SP \o <<"c">>, W_info \o SP \o <<"z">>,
  W_x, W_x \o SP \o <<"1">>, W_x \o SP \o <<"1">> \o SP \o <<"2">>,
  W_x \o SP \o SP \o <<"2">> \o SP \o <<"1">> \o SP }

\* lines whose command word is a prefix, an extension or a case variant of
\* a registered name
UnknownLines == {
  <<"h", "e">>, <<"s", "i", "i">> \o SP \o <<"3">>, <<"H", "E", "L", "P">>,
  <<"Q">>, <<"q", "q">>, TAB \o W_q }

\* the lines the line source can deliver
Lines == BlankLines \cup CommandLines \cup UnknownLines

\* ------------------------------------------------------------- state
VARIABLES
  pc,            \* where the program is: "main" (before init_sdb), "ready"
                 \* (init_sdb returned, sdb_mainloop not yet called), and in
                 \* sdb_mainloop "AWAITING_LINE", "TOKENIZING", "TERMINATED"
  is_batch_mode, \* the static flag of line 27
  initlog,       \* the initialisation calls made so far, in order
  nemu_state,    \* nemu_state.state, .halt_pc, .halt_ret
  cpu,           \* cpu.pc
  line_read,     \* rl_gets's static pointer: NULL or 1, the start of buf
  buf,           \* the characters of the buffer readline returned
  strtok_save,   \* strtok's saved pointer into buf
  hist_added,    \* whether rl_gets passed the last line to add_history
  nfetch,        \* number of readline calls made
  out,           \* what was printed since the last line was fetched
  calls,         \* the external calls made since the last line was fetched
  handled,       \* the handler invocations since the last line was fetched:
                 \* [handler, args, ret]
  run2,          \* a second, independent run of a handler, for comparing
                 \* what two runs print: [nemu_state, cpu, out]; only the
                 \* two-run specifications use it
  source,        \* the line source in use: "any" delivers any of Lines,
                 \* "script" the lines of a debugging session, "leftover"
                 \* lines that leave tokens unread; the latter two have
                 \* the run recorded in trace
  trace          \* the run recorded: every readline call with what it
                 \* returned and every external call, in order

vars == <<pc, is_batch_mode, initlog, nemu_state, cpu, line_read, buf,
          strtok_save, hist_added, nfetch, out, calls, handled, run2,
          source, trace>>

emu == <<nemu_state, cpu>>
io == <<out, calls, handled>>
tokenizer == <<line_read, buf, strtok_save, hist_added, nfetch>>

\* the states the emulator can be in
EmuStates ==
  [nemu_state : [state : NemuStates, halt_pc : PCs, halt_ret : HaltRets],
   cpu : [pc : PCs]]

Init ==
  /\ pc = "main"
  /\ is_batch_mode = FALSE
  /\ initlog = <<>>
  /\ \E e \in EmuStates :
       nemu_state = e.nemu_state /\ cpu = e.cpu
  /\ line_read = NULL
  /\ buf = <<>>
  /\ strtok_save = NULL
  /\ hist_added = FALSE
  /\ nfetch = 0
  /\ out = <<>>
  /\ calls = <<>>
  /\ handled = <<>>
  /\ run2 = <<>>
  /\ source = "any"
  /\ trace = <<>>

\* ---------------------------------------------------- startup sequence
\* the calls init_sdb makes, in order
init_sdb_swapped == <<"init_wp_pool", "init_regex">>
init_sdb_calls == <<"init_regex", "init_wp_pool">>

\* when the rest of the program calls the entry points of sdb.c:
\* sdb_set_batch_mode while the command line is parsed, init_sdb once when
\* the monitor is initialised, sdb_mainloop once after that
CallerMayCall(f) ==
  CASE f = "sdb_set_batch_mode" -> pc \in {"main", "ready"}
    [] f = "init_sdb" -> pc = "main"
    [] f = "sdb_mainloop" -> pc = "ready"

\* the flag after sdb_set_batch_mode, having been b: is_batch_mode = true
batch_mode_toggled(b) == ~b
batch_mode_set(b) == TRUE

sdb_set_batch_mode ==
  /\ CallerMayCall("sdb_set_batch_mode")
  /\ is_batch_mode' = batch_mode_set(is_batch_mode)
  /\ UNCHANGED <<run2, source, trace, pc, initlog, emu, tokenizer, io>>

init_sdb ==
  /\ CallerMayCall("init_sdb")
  /\ initlog' = initlog \o init_sdb_calls
  /\ pc' = "ready"
  /\ UNCHANGED <<run2, source, trace, is_batch_mode, emu, tokenizer, io>>

\* ------------------------------------------------ execution primitive
\* cpu_exec(n) runs the guest: it returns with the emulator in any state
cpu_exec(n, post) ==
  /\ calls' = <<<<"cpu_exec", n>>>>
  /\ nemu_state' = post.nemu_state
  /\ cpu' = post.cpu

\* the step count of cmd_c: (uint64_t)-1
UNBOUNDED == -1

\* ------------------------------------------------------ dispatch loop
\* whether sdb_mainloop takes the batch branch
BatchBranch_never(b) == FALSE
BatchBranch(b) == b

\* whether the loop returns on the handler's result r
LoopExits_positive(r) == r > 0
LoopExits_nonpositive(r) == r <= 0
LoopExits(r) == r < 0

\* the line sources
ScriptLines == {
  W_si \o SP \o <<"2">>, W_info \o SP \o <<"r">>, W_q,
  W_x \o SP \o <<"1">> \o SP \o <<"2">> }
\* lines that leave tokens unread, and lines without argument
LeftoverLines == {
  W_si \o SP \o <<"5">> \o SP \o <<"7">>, W_si,
  W_x \o SP \o <<"1">> \o SP \o <<"2">>, W_help }
SourceLines ==
  CASE source = "script" -> ScriptLines
    [] source = "leftover" -> LeftoverLines
    [] OTHER -> Lines
\* a session is one line longer than the other inputs
SourceMax == IF source = "script" THEN MaxLines + 1 ELSE MaxLines

\* the trace after the events ev
Logged(ev) == IF source = "any" THEN trace ELSE trace \o ev

\* sdb_mainloop called in batch mode: cmd_c(NULL), then return
sdb_mainloop_batch ==
  /\ CallerMayCall("sdb_mainloop")
  /\ BatchBranch(is_batch_mode)
  /\ \E post \in EmuStates : cpu_exec(UNBOUNDED, post)
  /\ handled' = <<[handler |-> "cmd_c", args |-> NULL, ret |-> 0]>>
  /\ trace' = Logged(calls')
  /\ pc' = "TERMINATED"
  /\ UNCHANGED <<run2, source, is_batch_mode, initlog, tokenizer, out>>

\* sdb_mainloop called in interactive mode: the for loop is entered
sdb_mainloop_interactive ==
  /\ CallerMayCall("sdb_mainloop")
  /\ ~BatchBranch(is_batch_mode)
  /\ pc' = "AWAITING_LINE"
  /\ UNCHANGED <<run2, source, trace, is_batch_mode, initlog, emu, tokenizer, io>>

\* rl_gets: the previous line is freed and readline returns a line
rl_gets ==
  /\ pc = "AWAITING_LINE"
  /\ nfetch < SourceMax
  /\ \E l \in SourceLines :
       /\ buf' = l
       /\ hist_added' = (CharAt(l, 1) # NUL)
       /\ trace' = Logged(<< <<"readline", l>> >>)
  /\ line_read' = 1
  /\ nfetch' = nfetch + 1
  /\ pc' = "TOKENIZING"
  /\ strtok_save' = IF strtok_save = NULL THEN NULL ELSE DANGLING
  /\ out' = <<>> /\ calls' = <<>> /\ handled' = <<>>
  /\ UNCHANGED <<run2, source, is_batch_mode, initlog, emu>>

\* the condition of the for loop: (str = rl_gets()) != NULL
ForCondition_always(str) == TRUE
ForCondition(str) == str # NULL

\* rl_gets: readline signals end-of-input, the loop condition fails
rl_gets_eof ==
  /\ pc = "AWAITING_LINE"
  /\ buf' = <<>>
  /\ line_read' = NULL
  /\ hist_added' = FALSE
  /\ trace' = Logged(<< <<"readline_eof">> >>)
  /\ nfetch' = nfetch + 1
  /\ pc' = IF ForCondition(NULL) THEN "TOKENIZING" ELSE "TERMINATED"
  /\ strtok_save' = IF strtok_save = NULL THEN NULL ELSE DANGLING
  /\ out' = <<>> /\ calls' = <<>> /\ handled' = <<>>
  /\ UNCHANGED <<run2, source, is_batch_mode, initlog, emu>>

\* the first strtok of the loop body, on the line just fetched
Tok == strtok(buf, line_read)
cmd == Tok.tok
str_end == line_read + strlen(buf, line_read)
args_unchecked == cmd + strlen(Tok.buf, cmd) + 1
args ==
  LET a == cmd + strlen(Tok.buf, cmd) + 1
  IN  IF a >= str_end THEN NULL ELSE a

\* the row the lookup loop stops at
Row == LookupFrom(CStr(Tok.buf, cmd), 1)

\* the loop body reaches the handler named h
Dispatches(h) ==
  /\ pc = "TOKENIZING"
  /\ cmd # NULL
  /\ Row <= NR_CMD
  /\ cmd_table[Row].handler = h

\* the handler h returned r, having left the line buffer as b and strtok's
\* saved pointer at s
Returns(h, r, b, s) ==
  /\ handled' = <<[handler |-> h, args |-> args, ret |-> r]>>
  /\ buf' = b
  /\ strtok_save' = s
  /\ trace' = Logged(calls')
  /\ pc' = IF LoopExits(r) THEN "TERMINATED" ELSE "AWAITING_LINE"
  /\ UNCHANGED <<run2, source, is_batch_mode, initlog, line_read, hist_added, nfetch>>

\* no command word: continue
LoopSkip ==
  /\ pc = "TOKENIZING"
  /\ cmd = NULL
  /\ buf' = Tok.buf
  /\ strtok_save' = Tok.save
  /\ pc' = "AWAITING_LINE"
  /\ UNCHANGED <<run2, source, trace, is_batch_mode, initlog, emu, line_read, hist_added, nfetch, io>>

\* the lookup loop ran out: i == NR_CMD
LoopUnknown ==
  /\ pc = "TOKENIZING"
  /\ cmd # NULL
  /\ Row = NR_CMD + 1
  /\ out' = << <<"Unknown command '%s'\n", CStr(Tok.buf, cmd)>> >>
  /\ buf' = Tok.buf
  /\ strtok_save' = Tok.save
  /\ pc' = "AWAITING_LINE"
  /\ UNCHANGED <<run2, source, trace, is_batch_mode, initlog, emu, line_read, hist_added, nfetch,
                 calls, handled>>

\* ----------------------------------------------------------- handlers
\* every handler reads its sub-arguments with strtok(NULL, " "): from
\* strtok's saved pointer, which the loop body's strtok left at Tok.save
SavedPtr_stale == strtok_save
SavedPtr == Tok.save

cmd_c ==
  /\ Dispatches("cmd_c")
  /\ \E post \in EmuStates : cpu_exec(UNBOUNDED, post)
  /\ out' = <<>>
  /\ Returns("cmd_c", 0, Tok.buf, Tok.save)

\* what cmd_q prints, given nemu_state
cmd_q_print_halt_pc(ns) ==
  << IF ns.halt_ret # 0
       THEN <<"NEMU has exited with code %d.\n", ns.halt_pc>>
       ELSE <<"NEMU has exited successfully.\n">>,
     <<"Bye!\n">> >>
cmd_q_print_nobye(ns) ==
  << IF ns.halt_ret # 0
       THEN <<"NEMU has exited with code %d.\n", ns.halt_ret>>
       ELSE <<"NEMU has exited successfully.\n">> >>
cmd_q_print(ns) ==
  << IF ns.halt_ret # 0
       THEN <<"NEMU has exited with code %d.\n", ns.halt_ret>>
       ELSE <<"NEMU has exited successfully.\n">>,
     <<"Bye!\n">> >>

\* what cmd_q makes of nemu_state
cmd_q_state_clears_ret(ns) == [ns EXCEPT !.state = "NEMU_QUIT", !.halt_ret = 0]
cmd_q_state(ns) == [ns EXCEPT !.state = "NEMU_QUIT"]

cmd_q ==
  /\ Dispatches("cmd_q")
  /\ nemu_state' = cmd_q_state(nemu_state)
  /\ out' = cmd_q_print(nemu_state)
  /\ UNCHANGED <<cpu, calls>>
  /\ Returns("cmd_q", -1, Tok.buf, Tok.save)

\* whether cmd_si rejects the step count n
si_rejects_negative(n) == n < 0
si_rejects(n) == n <= 0

cmd_si ==
  /\ Dispatches("cmd_si")
  /\ LET t == strtok(Tok.buf, SavedPtr)
         arg == t.tok
     IN  /\ \/ /\ arg # NULL
               /\ \E n \in atoi(CStr(t.buf, arg)) :
                    \/ /\ si_rejects(n)
                       /\ out' = << <<"Invalid step count: %s\n", CStr(t.buf, arg)>> >>
                       /\ UNCHANGED <<emu, calls>>
                    \/ /\ ~si_rejects(n)
                       /\ \E post \in EmuStates : cpu_exec(n, post)
                       /\ out' = <<>>
            \/ /\ arg = NULL
               /\ \E post \in EmuStates : cpu_exec(1, post)
               /\ out' = <<>>
         /\ Returns("cmd_si", 0, t.buf, t.save)

\* what `info c` prints
info_c_lines_pc_first(ns, c) ==
  << <<"NEMU state: %s\n",
       IF ns.state = "NEMU_RUNNING" THEN "RUNNING" ELSE "HALTED">>,
     <<"cpu PC: 0x%08x\n", c.pc>>,
     <<"Halt PC: 0x%08x\n", ns.halt_pc>>,
     <<"Halt return value: %d\n", ns.halt_ret>> >>
info_c_lines(ns, c) ==
  << <<"NEMU state: %s\n",
       IF ns.state = "NEMU_RUNNING" THEN "RUNNING" ELSE "HALTED">>,
     <<"Halt PC: 0x%08x\n", ns.halt_pc>>,
     <<"cpu PC: 0x%08x\n", c.pc>>,
     <<"Halt return value: %d\n", ns.halt_ret>> >>

cmd_info ==
  /\ Dispatches("cmd_info")
  /\ LET t == strtok(Tok.buf, SavedPtr)
         arg == t.tok
         s == CStr(t.buf, arg)
     IN  /\ IF arg # NULL
             THEN IF strcmp(s, <<"r">>) = 0
                    THEN out' = <<>> /\ calls' = << <<"isa_reg_display">> >>
                  ELSE IF strcmp(s, <<"w">>) = 0
                    THEN /\ out' = << <<"(Watchpoints are not implemented yet.)\n">> >>
                         /\ calls' = <<>>
                  ELSE IF strcmp(s, <<"c">>) = 0
                    THEN /\ out' = info_c_lines(nemu_state, cpu)
                         /\ calls' = <<>>
                  ELSE /\ out' = << <<"Unknown argument '%s' for 'info' command.\n", s>> >>
                       /\ calls' = <<>>
             ELSE /\ out' = <<
                       <<"Usage: info <r|w|c>\n">>,
                       <<"  r - print registers\n">>,
                       <<"  w - print watchpoints (not implemented yet)\n">>,
                       <<"  c - print NEMU state and halt information\n">> >>
                  /\ calls' = <<>>
         /\ UNCHANGED emu
         /\ Returns("cmd_info", 0, t.buf, t.save)

\* whether cmd_x takes the usage branch for the two tokens
x_usage_first_only(arg_N, arg_EXPR) == arg_N = NULL
x_usage(arg_N, arg_EXPR) == arg_N = NULL \/ arg_EXPR = NULL

\* the external calls of cmd_x's read branch: one translation, one byte read
x_calls_two_reads ==
  << <<"guest_to_host", X_ADDR>>, <<"read8", <<"host", X_ADDR>>>>,
     <<"read8", <<"host", X_ADDR>>>> >>
x_calls == << <<"guest_to_host", X_ADDR>>, <<"read8", <<"host", X_ADDR>>>> >>

\* cmd_x on the line buffer b with strtok's saved pointer s, the byte at
\* the translated address being value: what it prints, the calls it makes,
\* the buffer and saved pointer it leaves
x_run(b, s, value) ==
  LET t1 == strtok(b, s)
      t2 == strtok(t1.buf, t1.save)
      arg_N == t1.tok
      arg_EXPR == t2.tok
      addr == <<"host", X_ADDR>>
  IN  IF x_usage(arg_N, arg_EXPR)
        THEN [out |-> << <<"Usage: x <N> <EXPR>\n">> >>,
              calls |-> <<>>,
              buf |-> t2.buf, save |-> t2.save]
        ELSE [out |-> <<
                <<"N = %s, EXPR = %s\n", CStr(t2.buf, arg_N), CStr(t2.buf, arg_EXPR)>>,
                <<"Byte at address %p: 0x%02x\n", addr, value>> >>,
              calls |-> x_calls,
              buf |-> t2.buf, save |-> t2.save]

cmd_x ==
  /\ Dispatches("cmd_x")
  /\ \E value \in Bytes :
       LET r == x_run(Tok.buf, SavedPtr, value)
       IN  /\ out' = r.out
           /\ calls' = r.calls
           /\ UNCHANGED emu
           /\ Returns("cmd_x", 0, r.buf, r.save)

\* the row cmd_help prints for table index i
help_row_description_only(i) == <<"%s\n", cmd_table[i].description>>
help_row(i) == <<"%s - %s\n", cmd_table[i].name, cmd_table[i].description>>

\* the rows cmd_help prints without an argument
help_all_but_last == [i \in 1 .. NR_CMD - 1 |-> help_row(i)]
help_all == [i \in 1 .. NR_CMD |-> help_row(i)]

cmd_help ==
  /\ Dispatches("cmd_help")
  /\ LET t == strtok(Tok.buf, SavedPtr)
         arg == t.tok
         s == CStr(t.buf, arg)
         i == HelpLookupFrom(s, 1)
     IN  /\ out' = IF arg = NULL THEN help_all
                   ELSE IF i <= NR_CMD THEN <<help_row(i)>>
                   ELSE << <<"Unknown command '%s'\n", s>> >>
         /\ UNCHANGED <<emu, calls>>
         /\ Returns("cmd_help", 0, t.buf, t.save)

\* --------------------------------------------------------- specification
Next ==
  \/ sdb_set_batch_mode
  \/ init_sdb
  \/ sdb_mainloop_batch
  \/ sdb_mainloop_interactive
  \/ rl_gets
  \/ rl_gets_eof
  \/ LoopSkip
  \/ LoopUnknown
  \/ cmd_help
  \/ cmd_c
  \/ cmd_q
  \/ cmd_si
  \/ cmd_info
  \/ cmd_x

Spec == Init /\ [][Next]_vars

\* ====================================================== properties
\* The words of a raw line, defined without strtok: the maximal runs of
\* characters other than the space, in order.
RECURSIVE WordsFrom(_, _, _)
WordsFrom(line, p, cur) ==
  IF p > Len(line) THEN (IF cur = <<>> THEN <<>> ELSE <<cur>>)
  ELSE IF line[p] = " "
    THEN (IF cur = <<>> THEN <<>> ELSE <<cur>>) \o WordsFrom(line, p + 1, <<>>)
  ELSE WordsFrom(line, p + 1, Append(cur, line[p]))

WordsOf(line) == WordsFrom(line, 1, <<>>)

\* a line has been fetched and not yet processed: buf is the raw line
Fetched == pc = "TOKENIZING"
\* the fetched line has a command word, and it is w
CommandWordIs(w) == Fetched /\ WordsOf(buf) # <<>> /\ WordsOf(buf)[1] = w
\* the words after the command word of the fetched line
ArgWords == Tail(WordsOf(buf))

RegisteredNames == {W_help, W_c, W_q, W_si, W_info, W_x}
HandlerNamed(w) ==
  CASE w = W_help -> "cmd_help" [] w = W_c -> "cmd_c" [] w = W_q -> "cmd_q"
    [] w = W_si -> "cmd_si" [] w = W_info -> "cmd_info" [] w = W_x -> "cmd_x"

\* what the step from the fetched line invoked
Invoked(h) == Len(handled') = 1 /\ handled'[1].handler = h

\* ----------------------------------------------------------------- C1
\* C1: in interactive mode, when the line's command word is a registered
\* command, a negative handler result makes sdb_mainloop return at once
\* and a zero or positive result sends the loop back to fetching a line;
\* once the loop has returned (TERMINATED) nothing happens any more: the
\* state is absorbing and no further line is fetched.
C1_StatusDecidesLoop ==
  [][ /\ (Fetched /\ handled' # <<>>) =>
           /\ handled'[1].ret < 0 => pc' = "TERMINATED"
           /\ handled'[1].ret >= 0 => pc' = "AWAITING_LINE"
      /\ (pc = "TERMINATED") => (pc' = "TERMINATED" /\ nfetch' = nfetch)
    ]_vars

\* a handler returned a negative status in interactive mode and the loop
\* has returned, with lines still to be had from the line source
C1_Witness ==
  /\ pc = "TERMINATED" /\ ~is_batch_mode
  /\ handled # <<>> /\ handled[1].ret < 0
  /\ nfetch < MaxLines

\* ----------------------------------------------------------------- C2
\* C2: a handler is invoked for a line iff the command word equals one of
\* the six registered names character for character, and then exactly that
\* name's handler, once; for every other command word no handler is
\* invoked, the emulator state is unchanged, `Unknown command '<word>'` is
\* printed and the loop awaits the next line.
C2_ExactLookup ==
  [][ (Fetched /\ WordsOf(buf) # <<>>) =>
        LET w == WordsOf(buf)[1]
        IN  IF w \in RegisteredNames
              THEN Invoked(HandlerNamed(w))
              ELSE /\ handled' = <<>>
                   /\ calls' = <<>>
                   /\ UNCHANGED emu
                   /\ out' = << <<"Unknown command '%s'\n", w>> >>
                   /\ pc' = "AWAITING_LINE"
    ]_vars

\* the prefix "he" of "help" was looked up and rejected
C2_Witness ==
  /\ pc = "AWAITING_LINE"
  /\ out = << <<"Unknown command '%s'\n", <<"h", "e">> >> >>
  /\ handled = <<>>

\* ----------------------------------------------------------------- C3
IsBlank(line) == \A i \in 1 .. Len(line) : line[i] \in {" ", "\t"}
IsSpaces(line) == \A i \in 1 .. Len(line) : line[i] = " "

\* the loop skips the fetched line: nothing invoked, printed or changed
Skipped ==
  /\ handled' = <<>> /\ out' = <<>> /\ calls' = <<>>
  /\ UNCHANGED emu
  /\ pc' = "AWAITING_LINE"

\* C3: every line that is empty or made of white space only (any mix of
\* spaces and tabs) is skipped without a handler, without output and
\* without a change of the emulator state.
C3_BlankSkipped_Claimed == [][ (Fetched /\ IsBlank(buf)) => Skipped ]_vars

\* What the loop does with blank lines: a line that is empty or made of
\* spaces only is skipped; a tab is not in DELIM, so a blank line holding a
\* tab has a command word, which is looked up and reported as unknown.
BlankLineBehaviour ==
  [][ /\ (Fetched /\ IsSpaces(buf)) => Skipped
      /\ (Fetched /\ IsBlank(buf) /\ ~IsSpaces(buf)) =>
           /\ handled' = <<>> /\ calls' = <<>> /\ UNCHANGED emu
           /\ out' = << <<"Unknown command '%s'\n", WordsOf(buf)[1]>> >>
           /\ pc' = "AWAITING_LINE"
    ]_vars

\* a line of three spaces was fetched and skipped
SpacesSkippedReached ==
  /\ pc = "AWAITING_LINE" /\ nfetch > 0
  /\ buf = SP \o SP \o SP
  /\ out = <<>> /\ handled = <<>>

\* ----------------------------------------------------------------- C4
\* a decimal numeral that fits an int: digits only, at most nine of them
IsNumeral(t) ==
  /\ Len(t) \in 1 .. 9
  /\ \A i \in 1 .. Len(t) : IsDigit(t[i])
RECURSIVE NumeralValue(_)
NumeralValue(t) ==
  IF t = <<>> THEN 0
  ELSE 10 * NumeralValue(SubSeq(t, 1, Len(t) - 1)) + DigitVal(t[Len(t)])

\* C4: `si` without an argument makes exactly one cpu_exec call with step
\* count 1; with an argument that is a positive integer N exactly one call
\* with step count N; with the argument "0", "-5" or "abc" no call, the
\* 'Invalid step count' diagnostic and an unchanged emulator state; it
\* always returns 0 and the loop continues.
C4_StepCount ==
  [][ CommandWordIs(W_si) =>
        /\ Invoked("cmd_si") /\ handled'[1].ret = 0
        /\ pc' = "AWAITING_LINE"
        /\ ArgWords = <<>> =>
             calls' = << <<"cpu_exec", 1>> >> /\ out' = <<>>
        /\ (ArgWords # <<>> /\ IsNumeral(ArgWords[1])
              /\ NumeralValue(ArgWords[1]) >= 1) =>
             /\ calls' = << <<"cpu_exec", NumeralValue(ArgWords[1])>> >>
             /\ out' = <<>>
        /\ (ArgWords # <<>>
              /\ ArgWords[1] \in {<<"0">>, <<"-", "5">>, <<"a", "b", "c">>}) =>
             /\ calls' = <<>>
             /\ out' = << <<"Invalid step count: %s\n", ArgWords[1]>> >>
             /\ UNCHANGED emu
    ]_vars

\* `si 3` has run: one cpu_exec call with step count 3
C4_Witness ==
  /\ handled = <<[handler |-> "cmd_si", args |-> 4, ret |-> 0]>>
  /\ calls = << <<"cpu_exec", 3>> >>
  /\ pc = "AWAITING_LINE"

\* ----------------------------------------------------------------- C5
\* C5: from every emulator state and for every argument remainder, `q`
\* sets the emulator status to NEMU_QUIT, prints the exit message and then
\* the farewell line "Bye!", returns a negative status, and the loop
\* terminates.
C5_QuitTerminates ==
  [][ CommandWordIs(W_q) =>
        /\ Invoked("cmd_q") /\ handled'[1].ret < 0
        /\ nemu_state'.state = "NEMU_QUIT"
        /\ Len(out') = 2
        /\ out'[1][1] \in {"NEMU has exited with code %d.\n",
                           "NEMU has exited successfully.\n"}
        /\ out'[2] = <<"Bye!\n">>
        /\ pc' = "TERMINATED"
    ]_vars

\* `q 1` has run from a state that had aborted with halt code 2
C5_Witness ==
  /\ pc = "TERMINATED"
  /\ handled = <<[handler |-> "cmd_q", args |-> 3, ret |-> -1]>>
  /\ nemu_state.state = "NEMU_QUIT" /\ nemu_state.halt_ret = 2
  /\ out[2] = <<"Bye!\n">>

\* ----------------------------------------------------------------- C6
\* Two runs of cmd_q, from two emulator states chosen independently: the
\* first run in nemu_state and out, the second in run2.
InitQ ==
  /\ pc = "q_pair"
  /\ is_batch_mode = FALSE
  /\ initlog = init_sdb_calls
  /\ \E e1 \in EmuStates, e2 \in EmuStates :
       /\ nemu_state = e1.nemu_state /\ cpu = e1.cpu
       /\ run2 = [nemu_state |-> e2.nemu_state, cpu |-> e2.cpu, out |-> <<>>]
  /\ line_read = NULL
  /\ buf = <<>>
  /\ strtok_save = NULL
  /\ hist_added = FALSE
  /\ nfetch = 0
  /\ out = <<>>
  /\ calls = <<>>
  /\ handled = <<>>
  /\ source = "any"
  /\ trace = <<>>

cmd_q_pair ==
  /\ pc = "q_pair"
  /\ nemu_state' = cmd_q_state(nemu_state)
  /\ out' = cmd_q_print(nemu_state)
  /\ handled' = <<[handler |-> "cmd_q", args |-> NULL, ret |-> -1]>>
  /\ run2' = [nemu_state |-> cmd_q_state(run2.nemu_state), cpu |-> run2.cpu,
              out |-> cmd_q_print(run2.nemu_state)]
  /\ pc' = "q_pair_done"
  /\ UNCHANGED <<is_batch_mode, initlog, cpu, tokenizer, calls, source, trace>>

NextQ == cmd_q_pair

SpecQ == InitQ /\ [][NextQ]_vars

\* C6 as claimed: two runs of `q` from states whose halt return codes are
\* both zero, or both non-zero, print the same text.
C6_ZeroClassOnly_Claimed ==
  pc = "q_pair_done" =>
    ((nemu_state.halt_ret = 0) = (run2.nemu_state.halt_ret = 0)
       => out = run2.out)

\* C6: what `q` prints depends only on the recorded halt return code: two
\* runs from states with equal halt return codes (both zero in particular)
\* print the same text; two runs from states with non-zero codes print the
\* same two lines except that the first line carries the run's own code.
C6_HaltRetOnly ==
  pc = "q_pair_done" =>
    /\ nemu_state.halt_ret = run2.nemu_state.halt_ret => out = run2.out
    /\ (nemu_state.halt_ret # 0 /\ run2.nemu_state.halt_ret # 0) =>
         /\ Len(out) = 2 /\ Len(run2.out) = 2
         /\ out[1][1] = run2.out[1][1]
         /\ out[1][2] = nemu_state.halt_ret
         /\ run2.out[1][2] = run2.nemu_state.halt_ret
         /\ out[2] = run2.out[2]

\* two runs with halt return codes 1 and 2, which print different text
C6_Witness ==
  /\ pc = "q_pair_done"
  /\ nemu_state.halt_ret = 1 /\ run2.nemu_state.halt_ret = 2
  /\ out # run2.out

\* ----------------------------------------------------------------- C7
\* the table row registered under the name w
RowNamed(w) == CHOOSE i \in 1 .. NR_CMD : cmd_table[i].name = w
Entry(i) == <<"%s - %s\n", cmd_table[i].name, cmd_table[i].description>>

\* C7: `help` without an argument prints one entry per table row, each
\* once, in table order; `help <name>` for a registered name prints that
\* row's entry alone; for any other argument it prints `Unknown command
\* '<arg>'`; it always returns 0 and leaves the emulator state unchanged.
C7_Help ==
  [][ CommandWordIs(W_help) =>
        /\ Invoked("cmd_help") /\ handled'[1].ret = 0
        /\ pc' = "AWAITING_LINE"
        /\ UNCHANGED emu /\ calls' = <<>>
        /\ ArgWords = <<>> =>
             /\ Len(out') = NR_CMD
             /\ \A i \in 1 .. NR_CMD : out'[i] = Entry(i)
        /\ (ArgWords # <<>> /\ ArgWords[1] \in RegisteredNames) =>
             out' = << Entry(RowNamed(ArgWords[1])) >>
        /\ (ArgWords # <<>> /\ ArgWords[1] \notin RegisteredNames) =>
             out' = << <<"Unknown command '%s'\n", ArgWords[1]>> >>
    ]_vars

\* `help` has listed the six rows
C7_Witness ==
  /\ handled = <<[handler |-> "cmd_help", args |-> NULL, ret |-> 0]>>
  /\ Len(out) = 6
  /\ out[4] = <<"%s - %s\n", W_si, "Execute N step(s)">>

\* ----------------------------------------------------------------- C8
\* C8: `x` with no argument word or one performs no guest-to-host
\* translation and no memory read, prints the usage line, returns 0 and
\* leaves the emulator state unchanged.
C8_UsageNoAccess ==
  [][ (CommandWordIs(W_x) /\ Len(ArgWords) <= 1) =>
        /\ Invoked("cmd_x") /\ handled'[1].ret = 0
        /\ calls' = <<>>
        /\ out' = << <<"Usage: x <N> <EXPR>\n">> >>
        /\ UNCHANGED emu
        /\ pc' = "AWAITING_LINE"
    ]_vars

\* `x 1` has printed the usage line
C8_Witness ==
  /\ handled = <<[handler |-> "cmd_x", args |-> 3, ret |-> 0]>>
  /\ buf = <<"x", NUL, "1">>
  /\ out = << <<"Usage: x <N> <EXPR>\n">> >>
  /\ calls = <<>>

\* ----------------------------------------------------------------- C9
\* C9: when sdb_mainloop is entered in batch mode the loop is never
\* entered: no line is requested, nothing is tokenized or looked up, and
\* when the function has returned cmd_c has been invoked exactly once, with
\* a null argument, making the one cpu_exec(-1) call.
C9_BatchRunsOnce ==
  /\ pc \in {"AWAITING_LINE", "TOKENIZING"} => ~is_batch_mode
  /\ (pc = "TERMINATED" /\ is_batch_mode) =>
       /\ nfetch = 0
       /\ line_read = NULL /\ strtok_save = NULL /\ buf = <<>>
       /\ handled = <<[handler |-> "cmd_c", args |-> NULL, ret |-> 0]>>
       /\ calls = << <<"cpu_exec", UNBOUNDED>> >>
       /\ out = <<>>

\* sdb_mainloop has returned in batch mode
C9_Witness == pc = "TERMINATED" /\ is_batch_mode /\ calls # <<>>

\* ---------------------------------------------------------------- C10
\* C10: init_regex and init_wp_pool are each called exactly once,
\* init_regex first, and both before sdb_mainloop is entered: whenever the
\* program is past init_sdb, and so whenever a command can be dispatched,
\* the calls made are exactly init_regex, init_wp_pool in this order.
C10_InitBeforeLoop ==
  /\ pc = "main" => initlog = <<>>
  /\ pc # "main" => initlog = <<"init_regex", "init_wp_pool">>

\* a command is about to be dispatched with both initialisations done
C10_Witness ==
  /\ pc = "TOKENIZING"
  /\ initlog = <<"init_regex", "init_wp_pool">>
  /\ WordsOf(buf) # <<>>

\* ---------------------------------------------------------------- C11
\* The program keeps running: the callers make their calls, readline and
\* cpu_exec return, the loop body runs to its end.  This is weak fairness
\* of Next, WF_vars(Next), written out: a step of Next is possible exactly
\* when sdb_mainloop has not returned.
SpecLive == Spec /\ ([]<>(pc = "TERMINATED") \/ []<><<Next>>_vars)

\* the step in which readline signals end-of-input
EofStep == pc = "AWAITING_LINE" /\ nfetch' = nfetch + 1 /\ line_read' = NULL

\* C11: when the line source signals end-of-input in interactive mode the
\* loop terminates silently: no handler is invoked, nothing is printed, no
\* external call is made, the emulator state is unchanged and sdb_mainloop
\* returns; and since the input is finite and every cpu_exec call returns,
\* the loop eventually terminates.
C11_EofTerminates ==
  /\ [][ EofStep =>
           /\ pc' = "TERMINATED"
           /\ handled' = <<>> /\ out' = <<>> /\ calls' = <<>>
           /\ UNCHANGED emu
       ]_vars
  /\ <>(pc = "TERMINATED")

\* the loop has returned on end-of-input after all the lines were read
C11_Witness ==
  /\ pc = "TERMINATED" /\ ~is_batch_mode
  /\ line_read = NULL
  /\ nfetch = MaxLines + 1
  /\ handled = <<>> /\ out = <<>>

\* ---------------------------------------------------------------- C12
\* Runs in which the lines of a debugging session may be the input: the
\* whole run is then recorded in trace.
InitSeq ==
  /\ pc = "main"
  /\ is_batch_mode = FALSE
  /\ initlog = <<>>
  /\ \E e \in EmuStates :
       nemu_state = e.nemu_state /\ cpu = e.cpu
  /\ line_read = NULL
  /\ buf = <<>>
  /\ strtok_save = NULL
  /\ hist_added = FALSE
  /\ nfetch = 0
  /\ out = <<>>
  /\ calls = <<>>
  /\ handled = <<>>
  /\ run2 = <<>>
  /\ source \in {"any", "script"}
  /\ trace = <<>>

SpecSeq == InitSeq /\ [][Next]_vars

\* the lines readline has delivered, in order, according to a trace
RECURSIVE LinesRead(_)
LinesRead(t) ==
  IF t = <<>> THEN <<>>
  ELSE (IF Head(t)[1] = "readline" THEN <<Head(t)[2]>> ELSE <<>>)
         \o LinesRead(Tail(t))

\* the external calls a line is for
EffectOf(line) ==
  LET w == WordsOf(line)
  IN  IF w = <<>> THEN <<>>
      ELSE IF w[1] = W_c THEN << <<"cpu_exec", -1>> >>
      ELSE IF w[1] = W_si /\ Len(w) = 1 THEN << <<"cpu_exec", 1>> >>
      ELSE IF w[1] = W_si /\ IsNumeral(w[2]) /\ NumeralValue(w[2]) >= 1
        THEN << <<"cpu_exec", NumeralValue(w[2])>> >>
      ELSE IF w[1] = W_info /\ Len(w) >= 2 /\ w[2] = <<"r">>
        THEN << <<"isa_reg_display">> >>
      ELSE IF w[1] = W_x /\ Len(w) >= 3
        THEN << <<"guest_to_host", [hi |-> 32768, lo |-> 0]>>,
                <<"read8", <<"host", [hi |-> 32768, lo |-> 0]>>>> >>
      ELSE <<>>

IsQuitLine(line) == WordsOf(line) # <<>> /\ WordsOf(line)[1] = W_q

\* the session of the lines ls: each line is fetched, then has its effect,
\* and nothing follows the first `q`
RECURSIVE SessionOf(_)
SessionOf(ls) ==
  IF ls = <<>> THEN <<>>
  ELSE << <<"readline", Head(ls)>> >> \o EffectOf(Head(ls))
         \o (IF IsQuitLine(Head(ls)) THEN <<>> ELSE SessionOf(Tail(ls)))

Front(q) == SubSeq(q, 1, Len(q) - 1)
Last(q) == q[Len(q)]

\* C12: commands take effect strictly in input order and each line's effect
\* is complete before the next line is fetched: the recorded sequence of
\* readline calls and external calls is, line by line in input order, the
\* fetch of the line followed by the calls of that line's command, and
\* nothing is recorded after the first `q`: no line is fetched after it.
C12_InputOrder ==
  (source = "script" /\ ~is_batch_mode) =>
    LET ls == LinesRead(trace)
    IN  /\ pc = "TOKENIZING" =>
              /\ ls # <<>>
              /\ \A i \in 1 .. Len(ls) - 1 : ~IsQuitLine(ls[i])
              /\ trace = SessionOf(Front(ls)) \o << <<"readline", Last(ls)>> >>
        /\ pc = "AWAITING_LINE" =>
              /\ \A i \in 1 .. Len(ls) : ~IsQuitLine(ls[i])
              /\ trace = SessionOf(ls)
        /\ pc = "TERMINATED" =>
              \/ /\ ls # <<>> /\ IsQuitLine(Last(ls))
                 /\ trace = SessionOf(ls)
              \/ /\ \A i \in 1 .. Len(ls) : ~IsQuitLine(ls[i])
                 /\ trace = SessionOf(ls) \o << <<"readline_eof">> >>

\* the session "si 2", "info r", "q" has run: two steps, the register
\* dump, the farewell, and the loop has returned after three fetches
C12_Witness ==
  /\ pc = "TERMINATED"
  /\ trace = << <<"readline", W_si \o SP \o <<"2">>>>, <<"cpu_exec", 2>>,
                <<"readline", W_info \o SP \o <<"r">>>>, <<"isa_reg_display">>,
                <<"readline", W_q>> >>
  /\ nfetch = 3
  /\ handled = <<[handler |-> "cmd_q", args |-> NULL, ret |-> -1]>>
  /\ out = cmd_q_print(nemu_state)

\* ---------------------------------------------------------------- C13
\* the usage summary of `info`
InfoUsage ==
  << <<"Usage: info <r|w|c>\n">>,
     <<"  r - print registers\n">>,
     <<"  w - print watchpoints (not implemented yet)\n">>,
     <<"  c - print NEMU state and halt information\n">> >>

\* C13: `info` selects one of five outputs from its first argument token:
\* `r` calls the register-dump formatter; `w` prints the not-implemented
\* placeholder; `c` prints the run/halt state, the halt PC, the current PC
\* and the halt return code of the current emulator state, in this order,
\* whatever the status; no argument prints the usage summary naming r, w
\* and c; any other token prints Unknown argument with the token, which is
\* not the usage message.  It returns 0 and the loop continues.
C13_Info ==
  [][ CommandWordIs(W_info) =>
        /\ Invoked("cmd_info") /\ handled'[1].ret = 0
        /\ pc' = "AWAITING_LINE"
        /\ IF ArgWords = <<>>
             THEN out' = InfoUsage /\ calls' = <<>>
           ELSE IF ArgWords[1] = <<"r">>
             THEN calls' = << <<"isa_reg_display">> >> /\ out' = <<>>
           ELSE IF ArgWords[1] = <<"w">>
             THEN /\ out' = << <<"(Watchpoints are not implemented yet.)\n">> >>
                  /\ calls' = <<>>
           ELSE IF ArgWords[1] = <<"c">>
             THEN /\ Len(out') = 4
                  /\ out'[1] = <<"NEMU state: %s\n",
                                 IF nemu_state.state = "NEMU_RUNNING"
                                   THEN "RUNNING" ELSE "HALTED">>
                  /\ out'[2] = <<"Halt PC: 0x%08x\n", nemu_state.halt_pc>>
                  /\ out'[3] = <<"cpu PC: 0x%08x\n", cpu.pc>>
                  /\ out'[4] = <<"Halt return value: %d\n", nemu_state.halt_ret>>
                  /\ calls' = <<>>
           ELSE /\ Len(out') = 1
                /\ out'[1] = <<"Unknown argument '%s' for 'info' command.\n",
                               ArgWords[1]>>
                /\ out' # InfoUsage
                /\ calls' = <<>>
    ]_vars

\* `info c` has printed its four lines for an aborted emulator whose halt
\* PC and current PC differ
C13_Witness ==
  /\ pc = "AWAITING_LINE"
  /\ Len(handled) = 1 /\ handled[1].handler = "cmd_info"
  /\ nemu_state.state = "NEMU_ABORT"
  /\ nemu_state.halt_pc # cpu.pc
  /\ nemu_state.halt_ret = MaxHaltRet
  /\ out = << <<"NEMU state: %s\n", "HALTED">>,
              <<"Halt PC: 0x%08x\n", nemu_state.halt_pc>>,
              <<"cpu PC: 0x%08x\n", cpu.pc>>,
              <<"Halt return value: %d\n", MaxHaltRet>> >>

\* ---------------------------------------------------------------- C14
\* C14: the handlers help, info and x leave the run/halt status, the
\* program counter, the halt PC and the halt return code unchanged, for
\* every argument and every emulator state; q changes the run/halt status
\* only: program counter, halt PC and halt return code stay as they were.
C14_Frame ==
  [][ /\ (CommandWordIs(W_help) \/ CommandWordIs(W_info) \/ CommandWordIs(W_x))
         => /\ nemu_state'.state = nemu_state.state
            /\ nemu_state'.halt_pc = nemu_state.halt_pc
            /\ nemu_state'.halt_ret = nemu_state.halt_ret
            /\ cpu'.pc = cpu.pc
      /\ CommandWordIs(W_q)
         => /\ nemu_state'.halt_pc = nemu_state.halt_pc
            /\ nemu_state'.halt_ret = nemu_state.halt_ret
            /\ cpu'.pc = cpu.pc
    ]_vars

\* q has run on an emulator with a non-zero halt return code and a
\* non-zero program counter: the status is NEMU_QUIT, the rest is there
C14_Witness ==
  /\ pc = "TERMINATED"
  /\ Len(handled) = 1 /\ handled[1].handler = "cmd_q"
  /\ nemu_state.state = "NEMU_QUIT"
  /\ nemu_state.halt_ret = MaxHaltRet
  /\ nemu_state.halt_pc = 4 /\ cpu.pc = 4

\* ---------------------------------------------------------------- C15
\* the fetched line is one registered command word alone, possibly with
\* spaces around it
BareCommand == Fetched /\ Len(WordsOf(buf)) = 1 /\ WordsOf(buf)[1] \in RegisteredNames

\* C15: a command word followed by nothing, by one space or by any number
\* of spaces is handled as the command without argument: the handler is
\* passed the absent value when the line ends at the command word or right
\* after its delimiter, and in every case, blank remainder included, the
\* handler does what it does without argument: si steps 1, info prints
\* its usage summary, help lists all commands, x prints its usage line,
\* c continues, q prints the farewell.
C15_BlankRemainder ==
  [][ BareCommand =>
        LET w == WordsOf(buf)[1]
        IN  /\ Invoked(HandlerNamed(w))
            /\ (buf = w \/ buf = w \o SP) => handled'[1].args = NULL
            /\ w = W_si => calls' = << <<"cpu_exec", 1>> >> /\ out' = <<>>
            /\ w = W_c => calls' = << <<"cpu_exec", -1>> >> /\ out' = <<>>
            /\ w = W_info => calls' = <<>> /\ out' = InfoUsage
            /\ w = W_x => /\ calls' = <<>>
                          /\ out' = << <<"Usage: x <N> <EXPR>\n">> >>
            /\ w = W_help => /\ calls' = <<>>
                             /\ out' = [i \in 1 .. NR_CMD |-> Entry(i)]
            /\ w = W_q => /\ calls' = <<>>
                          /\ out' = cmd_q_print(nemu_state)
                          /\ pc' = "TERMINATED"
            /\ w # W_q => handled'[1].ret = 0 /\ pc' = "AWAITING_LINE"
    ]_vars

\* "si   " has been handled: cmd_si was passed the blank remainder, not the
\* absent value, and has stepped by 1
C15_Witness ==
  /\ pc = "AWAITING_LINE"
  /\ buf = <<"s", "i", NUL, " ", " ">>
  /\ handled = <<[handler |-> "cmd_si", args |-> 4, ret |-> 0]>>
  /\ calls = << <<"cpu_exec", 1>> >>
  /\ out = <<>>

\* ---------------------------------------------------------------- C16
\* a well-formed decimal integer, of any length
IsDecimal(t) == Len(t) >= 1 /\ \A i \in 1 .. Len(t) : IsDigit(t[i])
RECURSIVE StripZeros(_)
StripZeros(t) ==
  IF Len(t) > 1 /\ t[1] = "0" THEN StripZeros(Tail(t)) ELSE t
\* the decimal numeral of a natural number
RECURSIVE Decimal(_)
Decimal(n) ==
  LET d == Digits[(n % 10) + 1]
  IN  IF n < 10 THEN <<d>> ELSE Append(Decimal(n \div 10), d)

\* C16 as claimed: `si` with an argument token steps if and only if the
\* token is a well-formed decimal integer of value N >= 1, whether or not
\* N fits a 32-bit signed integer, and then makes exactly one cpu_exec call
\* with step count N; for every other token (value <= 0, no leading
\* digits, digits followed by other characters as in "3abc") it prints
\* Invalid step count and makes no call.
C16_StepIffValid_Claimed ==
  [][ (CommandWordIs(W_si) /\ ArgWords # <<>>) =>
        LET t == ArgWords[1]
        IN  IF IsDecimal(t) /\ StripZeros(t) # <<"0">>
              THEN /\ Len(calls') = 1
                   /\ calls'[1][1] = "cpu_exec"
                   /\ calls'[1][2] >= 1
                   /\ Decimal(calls'[1][2]) = StripZeros(t)
                   /\ out' = <<>>
              ELSE /\ calls' = <<>>
                   /\ out' = << <<"Invalid step count: %s\n", t>> >>
    ]_vars

\* ---------------------------------------------------------------- C17
\* Two runs of cmd_x on two lines chosen independently, over the same guest
\* memory: the first run in buf, out and calls, the second in run2; run2.mem
\* is the guest byte at 0x80000000.
XLines == { l \in Lines : WordsOf(l) # <<>> /\ WordsOf(l)[1] = W_x }

InitX ==
  /\ pc = "x_pair"
  /\ is_batch_mode = FALSE
  /\ initlog = init_sdb_calls
  /\ \E e \in EmuStates :
       nemu_state = e.nemu_state /\ cpu = e.cpu
  /\ line_read = 1
  /\ buf \in XLines
  /\ \E l \in XLines, b \in Bytes :
       run2 = [buf |-> l, mem |-> b, out |-> <<>>, calls |-> <<>>]
  /\ strtok_save = NULL
  /\ hist_added = TRUE
  /\ nfetch = 1
  /\ out = <<>>
  /\ calls = <<>>
  /\ handled = <<>>
  /\ source = "any"
  /\ trace = <<>>

\* both runs: the loop's strtok takes the command word, then cmd_x runs
cmd_x_pair ==
  /\ pc = "x_pair"
  /\ LET k1 == strtok(buf, line_read)
         k2 == strtok(run2.buf, 1)
         r1 == x_run(k1.buf, k1.save, run2.mem)
         r2 == x_run(k2.buf, k2.save, run2.mem)
     IN  /\ out' = r1.out /\ calls' = r1.calls
         /\ buf' = r1.buf /\ strtok_save' = r1.save
         /\ run2' = [run2 EXCEPT !.buf = r2.buf, !.out = r2.out,
                                 !.calls = r2.calls]
  /\ handled' = <<[handler |-> "cmd_x", args |-> NULL, ret |-> 0]>>
  /\ pc' = "x_pair_done"
  /\ UNCHANGED <<is_batch_mode, initlog, emu, line_read, hist_added, nfetch,
                 source, trace>>

NextX == cmd_x_pair

SpecX == InitX /\ [][NextX]_vars

\* a line that gives `x` both tokens
HasBothTokens(l) == Len(WordsOf(l)) >= 3

\* C17: given both tokens N and EXPR, `x` makes exactly one guest-to-host
\* translation, of the fixed address 0x80000000, and reads exactly one byte
\* there; the address translated, the number of bytes read and the byte
\* printed are the same whatever N and EXPR are: two runs over the same
\* memory with different N and EXPR make the same calls and print the same
\* address and byte, the byte in memory; guest memory and the emulator
\* state are not modified.
C17_FixedRead ==
  [][ pc = "x_pair" =>
        /\ HasBothTokens(buf) =>
             /\ calls' = << <<"guest_to_host", [hi |-> 32768, lo |-> 0]>>,
                            <<"read8", <<"host", [hi |-> 32768, lo |-> 0]>>>> >>
             /\ Len(out') = 2
             /\ out'[1] = <<"N = %s, EXPR = %s\n", WordsOf(buf)[2], WordsOf(buf)[3]>>
             /\ out'[2][3] = run2.mem
        /\ (HasBothTokens(buf) /\ HasBothTokens(run2.buf)) =>
             /\ calls' = run2'.calls
             /\ out'[2] = run2'.out[2]
        /\ run2'.mem = run2.mem
        /\ UNCHANGED emu
    ]_vars

\* the two runs were given different N and EXPR and have printed the same
\* byte, 0xff
C17_Witness ==
  /\ pc = "x_pair_done"
  /\ Len(out) = 2 /\ Len(run2.out) = 2
  /\ out[1] # run2.out[1]
  /\ out[2] = run2.out[2]
  /\ out[2][3] = 255

\* ---------------------------------------------------------------- C18
\* C18: the mode flag is interactive at the start and is monotone: it only
\* ever goes from interactive to batch, in a call of sdb_set_batch_mode
\* before the loop starts; no step resets it to interactive, a repeated
\* call of sdb_set_batch_mode included, and no step of init_sdb or of the
\* dispatch loop changes it.
C18_BatchMonotone ==
  /\ ~is_batch_mode
  /\ [][ /\ is_batch_mode => is_batch_mode'
         /\ is_batch_mode' # is_batch_mode =>
              /\ pc \in {"main", "ready"}
              /\ UNCHANGED <<pc, initlog, emu, tokenizer, io>>
       ]_vars

\* sdb_set_batch_mode was called and the loop has run and returned, the
\* flag still being batch
C18_Witness ==
  /\ is_batch_mode
  /\ pc = "TERMINATED"
  /\ calls = << <<"cpu_exec", -1>> >>

\* ---------------------------------------------------------------- C19
\* C19: in interactive mode the loop returns only on `q` or on
\* end-of-input: every other line, whatever its command, arguments and the
\* emulator state, has its handler (if any) return 0 and leaves the loop
\* awaiting the next line, also when c or si left the emulator halted,
\* ended or aborted.
C19_OnlyQuitOrEof ==
  [][ /\ (pc # "TERMINATED" /\ pc' = "TERMINATED" /\ ~is_batch_mode)
           => (CommandWordIs(W_q) \/ EofStep)
      /\ (Fetched /\ ~CommandWordIs(W_q))
           => /\ pc' = "AWAITING_LINE"
              /\ \A i \in 1 .. Len(handled') : handled'[i].ret = 0
    ]_vars

\* after as many lines as the input allows, the last one a `c` that left
\* the emulator aborted, the loop is awaiting a line
C19_Witness ==
  /\ pc = "AWAITING_LINE"
  /\ nfetch = MaxLines
  /\ Len(handled) = 1 /\ handled[1].handler = "cmd_c"
  /\ nemu_state.state = "NEMU_ABORT"

\* ---------------------------------------------------------------- C20
\* Runs in which the input may be lines that leave tokens unread followed
\* by lines without argument, recorded in trace.
InitLeft ==
  /\ pc = "main"
  /\ is_batch_mode = FALSE
  /\ initlog = <<>>
  /\ \E e \in EmuStates :
       nemu_state = e.nemu_state /\ cpu = e.cpu
  /\ line_read = NULL
  /\ buf = <<>>
  /\ strtok_save = NULL
  /\ hist_added = FALSE
  /\ nfetch = 0
  /\ out = <<>>
  /\ calls = <<>>
  /\ handled = <<>>
  /\ run2 = <<>>
  /\ source \in {"any", "leftover"}
  /\ trace = <<>>

SpecLeft == InitLeft /\ [][Next]_vars

\* C20: a handler obtains its tokens from strtok's shared state and yet
\* only ever sees the tokens of the line being dispatched: whatever lines
\* came before, what the handler does is determined by the space-separated
\* tokens after the command word of the current line, in order (none, if
\* there are none), never by a token an earlier line left unread; and
\* strtok's saved pointer is left inside the current line.
C20_CurrentLineTokens ==
  [][ (Fetched /\ WordsOf(buf) # <<>> /\ WordsOf(buf)[1] \in RegisteredNames) =>
        LET w == WordsOf(buf)[1]
            a == ArgWords
        IN  /\ strtok_save' \in 1 .. Len(buf') + 1
            /\ w = W_si =>
                 IF a = <<>>
                   THEN calls' = << <<"cpu_exec", 1>> >> /\ out' = <<>>
                   ELSE \E n \in atoi(a[1]) :
                          IF n <= 0
                            THEN /\ calls' = <<>>
                                 /\ out' = << <<"Invalid step count: %s\n", a[1]>> >>
                            ELSE /\ calls' = << <<"cpu_exec", n>> >>
                                 /\ out' = <<>>
            /\ w = W_x =>
                 IF Len(a) >= 2
                   THEN Len(out') = 2 /\ out'[1] = <<"N = %s, EXPR = %s\n", a[1], a[2]>>
                   ELSE out' = << <<"Usage: x <N> <EXPR>\n">> >>
            /\ w = W_help =>
                 IF a = <<>>
                   THEN out' = [i \in 1 .. NR_CMD |-> Entry(i)]
                 ELSE IF a[1] \in RegisteredNames
                   THEN out' = << Entry(RowNamed(a[1])) >>
                 ELSE out' = << <<"Unknown command '%s'\n", a[1]>> >>
            /\ w = W_info =>
                 IF a = <<>>
                   THEN out' = InfoUsage
                 ELSE IF a[1] \in {<<"r">>, <<"w">>, <<"c">>}
                   THEN out' # InfoUsage
                 ELSE out' = << <<"Unknown argument '%s' for 'info' command.\n", a[1]>> >>
    ]_vars

\* after the line "si 5 7", which left the token 7 unread, the line "si"
\* has stepped by exactly 1
C20_Witness ==
  /\ pc = "AWAITING_LINE"
  /\ source = "leftover"
  /\ trace = << <<"readline", W_si \o SP \o <<"5">> \o SP \o <<"7">>>>,
                <<"cpu_exec", 5>>,
                <<"readline", W_si>>,
                <<"cpu_exec", 1>> >>
  /\ strtok_save = 3

====
